---- MODULE Spec2Model ----
(***************************************************************************)
(* Model of the gitcontext context engine: GitContext (core/context.py),   *)
(* IndexManager (storage/index.py), the commit store and the archive kept  *)
(* through FileSystemStorage (storage/filesystem.py), and the analysis     *)
(* providers (llm/).                                                       *)
(*                                                                         *)
(* Branch names and messages are sequences of characters / text tokens so  *)
(* that the name validation of GitContext.branch can be computed.         *)
(* The clock is one fixed instant (Now); the timestamps of the Index and   *)
(* of the archive (created, last_modified, archived_at, merged_at) are not *)
(* modelled and archive directories are taken to get distinct timestamps.  *)
(*                                                                         *)
(* Spec is the engine configured with the offline stub (MockProvider, as   *)
(* tests/conftest.py does) and driven without OTA logs, over the branch    *)
(* names main, dev and two names branch() refuses.  Spec3 is the same      *)
(* engine over the three branches main, dev and fix.                       *)
(***************************************************************************)
EXTENDS Integers, Sequences, FiniteSets, TLC

VARIABLES contextDir, disk, cache, provider, commitStore, otaStore,
          branchDirs, archive, nextId, worktree, otherCache, pending, last

vars == <<contextDir, disk, cache, provider, commitStore, otaStore,
          branchDirs, archive, nextId, worktree, otherCache, pending, last>>

----------------------------------------------------------------------------
(* Bounds *)

\* number of commit ids _generate_commit_id can hand out
MaxIds == 2
\* longest commit-id list a non-squash merge may build, and most archive
\* directories left behind by failed archive writes
MaxLen == 3
\* largest limit argument of log()
MaxLimit == 2

----------------------------------------------------------------------------
(* Values *)

Main == <<"m", "a", "i", "n">>
Dev == <<"d", "e", "v">>
FeatureX == <<"f", "e", "a", "t", "u", "r", "e", "/", "x">>
Fix == <<"f", "i", "x">>
EmptyName == <<>>
FixBackslash == <<"f", "i", "x", "\\", "1">>
\* Python None where a branch name is expected
NoBranch == <<"None">>
\* Python None where a commit id is expected
NoCommit == 0

\* names branch() is asked to validate: one it accepts, three it refuses
NameArgs == {Dev, EmptyName, FeatureX, FixBackslash}
\* name argument of branch()
BranchArgs == {Main, Dev, FeatureX, EmptyName}
\* from_branch argument of branch()
FromArgs == {NoBranch, Main, FeatureX}
\* branch argument of checkout(), merge() and branch_delete
RefArgs == {Main, Dev, FeatureX}
\* the branch names of Spec3
ThreeBranches == {Main, Dev, Fix}

UseX == <<"Use X">>
\* decisions argument of commit(): not given (None), or a list
DecisionArgs == {[given |-> FALSE, value |-> <<>>],
                 [given |-> TRUE, value |-> UseX]}
\* decisions passed explicitly: an empty list, a list of one
ExplicitDecisionArgs == {[given |-> TRUE, value |-> <<>>],
                         [given |-> TRUE, value |-> UseX]}
\* working trees: no tracked file, a.py, a.py rewritten
Snapshots == {{}, {<<"a.py", "h1">>}, {<<"a.py", "h2">>}}

\* datetime objects: a second and its microseconds; datetime.now()
DateTimes == {[type |-> "datetime", sec |-> 1, usec |-> 0],
              [type |-> "datetime", sec |-> 1, usec |-> 5]}
Now == [type |-> "datetime", sec |-> 1, usec |-> 5]

\* an OTA log entry, and the ota_logs argument of commit()
OtaLog == [id |-> "ab12cd34", thought |-> "try X", action |-> "edit a.py",
           result |-> "works", timestamp |-> Now,
           files_affected |-> <<"a.py">>, metadata |-> <<>>]
OtaArgs == {<<>>, <<OtaLog>>}

\* decisions parsed from a backend response
Answers == {<<>>, <<"Use Postgres">>}

\* outcomes of the archive writes of a squash merge
ArchiveWrites == {"ok", "branch.json fails", "summary.md fails"}

\* parent field of a commit
Parents == {NoCommit, 1}

\* message argument of commit()
Messages == {<<"add X">>}

NoMetadata ==
    [squash_merge |-> FALSE, source_branch |-> NoBranch, original_commits |-> 0,
     insights |-> <<>>, architecture_summary |-> ""]

----------------------------------------------------------------------------
(* IndexManager *)

_create_default ==
    [current_branch |-> Main,
     branches |-> (Main :> [current_commit |-> NoCommit, commits |-> <<>>,
                            parent |-> NoBranch])]

\* a load() that reads the document on disk at every call
load_fresh ==
    IF Len(disk) > 0 THEN disk[1] ELSE _create_default

\* the document load() returns: the cache, else the file, else the default
load ==
    IF Len(cache) > 0 THEN cache[1]
    ELSE IF Len(disk) > 0 THEN disk[1]
    ELSE _create_default

get_current_branch(index) == index.current_branch

get_commits(index, branch) ==
    IF branch \in DOMAIN index.branches THEN index.branches[branch].commits
    ELSE <<>>

\* get_current_commit that reports no head
get_current_commit_null(index, branch) == NoCommit

get_current_commit(index, branch) ==
    IF branch \in DOMAIN index.branches
    THEN index.branches[branch].current_commit
    ELSE NoCommit

\* set_current_branch with its guard dropped
set_current_branch_error_unchecked(index, branch) == "ok"

\* the refusal of set_current_branch
set_current_branch_error(index, branch) ==
    IF branch \notin DOMAIN index.branches THEN "StorageError: not found"
    ELSE "ok"

set_current_branch(index, branch) ==
    [index EXCEPT !.current_branch = branch]

\* create_branch with the already-exists test dropped
create_branch_error_overwrite(index, name, from_branch) ==
    IF from_branch \notin DOMAIN index.branches
    THEN "StorageError: source not found"
    ELSE "ok"

\* the two refusals of create_branch, in the order the code tests them
create_branch_error(index, name, from_branch) ==
    IF name \in DOMAIN index.branches THEN "StorageError: already exists"
    ELSE IF from_branch \notin DOMAIN index.branches
    THEN "StorageError: source not found"
    ELSE "ok"

\* create_branch that starts the new branch with an empty commit list
create_branch_nocopy(index, name, from_branch) ==
    LET source == index.branches[from_branch]
    IN  [index EXCEPT !.branches =
            (name :> [current_commit |-> source.current_commit,
                      commits |-> <<>>,
                      parent |-> from_branch]) @@ index.branches]

create_branch(index, name, from_branch) ==
    LET source == index.branches[from_branch]
    IN  [index EXCEPT !.branches =
            (name :> [current_commit |-> source.current_commit,
                      commits |-> source.commits,
                      parent |-> from_branch]) @@ index.branches]

\* delete_branch with the protection of the current branch dropped
delete_branch_error_uncurrent(index, name) ==
    IF name \notin DOMAIN index.branches THEN "StorageError: not found"
    ELSE IF name = Main THEN "StorageError: cannot delete main"
    ELSE "ok"

\* delete_branch with the protection of main dropped
delete_branch_error_unprotected(index, name) ==
    IF name \notin DOMAIN index.branches THEN "StorageError: not found"
    ELSE IF name = index.current_branch THEN "StorageError: cannot delete current"
    ELSE "ok"

\* the three refusals of delete_branch, in the order the code tests them
delete_branch_error(index, name) ==
    IF name \notin DOMAIN index.branches THEN "StorageError: not found"
    ELSE IF name = Main THEN "StorageError: cannot delete main"
    ELSE IF name = index.current_branch THEN "StorageError: cannot delete current"
    ELSE "ok"

delete_branch(index, name) ==
    [index EXCEPT !.branches =
        [b \in (DOMAIN index.branches) \ {name} |-> index.branches[b]]]

\* add_commit that starts the list over with the new id
add_commit_restart(index, branch, commit_id) ==
    [index EXCEPT !.branches[branch] =
        [@ EXCEPT !.commits = <<commit_id>>,
                  !.current_commit = commit_id]]

\* add_commit that appends the id but leaves the head where it was
add_commit_nohead(index, branch, commit_id) ==
    [index EXCEPT !.branches[branch] =
        [@ EXCEPT !.commits = Append(@, commit_id)]]

add_commit(index, branch, commit_id) ==
    [index EXCEPT !.branches[branch] =
        [@ EXCEPT !.commits = Append(@, commit_id),
                  !.current_commit = commit_id]]

----------------------------------------------------------------------------
(* Serialization of commits (models/types.py, models/ota.py, json) *)

\* datetime.isoformat(): the text "<sec>", followed by ".<usec>" unless the
\* microseconds are zero
isoformat(dt) ==
    [type |-> "str",
     text |-> IF dt.usec = 0 THEN <<dt.sec>> ELSE <<dt.sec, ".", dt.usec>>]

\* datetime.fromisoformat()
fromisoformat(str) ==
    [type |-> "datetime", sec |-> str.text[1],
     usec |-> IF Len(str.text) = 1 THEN 0 ELSE str.text[3]]

\* OTALog.to_dict = BaseModel.model_dump(): the field values as they are,
\* the timestamp still a datetime object
OTALog_to_dict(log) ==
    [id |-> log.id, thought |-> log.thought, action |-> log.action,
     result |-> log.result, timestamp |-> log.timestamp,
     files_affected |-> log.files_affected, metadata |-> log.metadata]

OTALog_from_dict(data) ==
    [data EXCEPT !.timestamp = IF @.type = "str" THEN fromisoformat(@) ELSE @]

Alternative_to_dict(alt) ==
    [what |-> alt.what, why_rejected |-> alt.why_rejected]

\* ContextCommit.to_dict
to_dict(commit) ==
    [id |-> commit.id, message |-> commit.message,
     timestamp |-> isoformat(commit.timestamp), parent |-> commit.parent,
     decisions |-> commit.decisions,
     alternatives |-> [k \in DOMAIN commit.alternatives |->
                          Alternative_to_dict(commit.alternatives[k])],
     ota_logs |-> [k \in DOMAIN commit.ota_logs |->
                      OTALog_to_dict(commit.ota_logs[k])],
     files_snapshot |-> commit.files_snapshot, metadata |-> commit.metadata]

\* ContextCommit.from_dict
from_dict(data) ==
    [data EXCEPT
        !.timestamp = IF @.type = "str" THEN fromisoformat(@) ELSE @,
        !.ota_logs = [k \in DOMAIN @ |-> OTALog_from_dict(@[k])]]

\* json.dump(data) of a commit document: raises TypeError on a datetime
\* object (no default= encoder is given)
json_dump_ok(data) ==
    /\ data.timestamp.type = "str"
    /\ \A k \in DOMAIN data.ota_logs : data.ota_logs[k].timestamp.type = "str"

----------------------------------------------------------------------------
(* Commit store (GitContext._save_commit / _load_commit) and storage *)

\* get_files_snapshot(get_tracked_files()): the (path, fingerprint) pairs
\* of the tracked files that exist in the working tree
get_files_snapshot == worktree

\* _load_commit: the commit read from the document under the branch's own
\* history path, if any
_load_commit(store, commit_id, branch) ==
    IF <<branch, commit_id>> \in DOMAIN store
    THEN <<from_dict(store[<<branch, commit_id>>])>>
    ELSE <<>>

\* _save_commit, when json.dump succeeds: the store holds commit.to_dict()
_save_commit(store, commit, branch) ==
    (<<branch, commit.id>> :> to_dict(commit)) @@ store

_get_branch_commits(index, store, branch) ==
    LET ids == get_commits(index, branch)
        found == SelectSeq(ids, LAMBDA i : <<branch, i>> \in DOMAIN store)
    IN  [k \in 1..Len(found) |-> _load_commit(store, found[k], branch)[1]]

\* commit_ids[-limit:]: the last limit ids, the whole list when limit is 0
\* or exceeds its length
last_ids(commit_ids, limit) ==
    IF limit = 0 \/ limit >= Len(commit_ids) THEN commit_ids
    ELSE SubSeq(commit_ids, Len(commit_ids) - limit + 1, Len(commit_ids))

\* log(branch, limit): the commits of the window that load under the
\* target branch's own history path
log(index, store, branch, limit) ==
    LET target_branch == IF branch \in {NoBranch, EmptyName}
                         THEN get_current_branch(index) ELSE branch
        window == last_ids(get_commits(index, target_branch), limit)
        found == SelectSeq(window,
                           LAMBDA i : <<target_branch, i>> \in DOMAIN store)
    IN  [k \in 1..Len(found) |->
            _load_commit(store, found[k], target_branch)[1]]

\* storage.delete("contexts", "branches", branch) on the commit documents
storage_delete(store, branch) ==
    [k \in {x \in DOMAIN store : x[1] # branch \/ branch = Main} |-> store[k]]

\* the same deletion on the ota-logs documents
storage_delete_ota(ota, branch) ==
    {x \in ota : x[1] # branch \/ branch = Main}

----------------------------------------------------------------------------
(* Analysis providers *)

MockDecisions == <<"Use JWT", "Redis cache">>
MockAnalysisDecisions == <<"Use JWT for auth", "Implement Redis cache">>

MockAlternatives == <<[what |-> "Session auth", why_rejected |-> "Scalability issues"]>>
MockInsights == <<"JWT works well with microservices">>

\* MockProvider.squash_branch_history
MockSquash(branch_name, commits) ==
    [decisions |-> MockDecisions, rejected_alternatives |-> <<>>,
     key_insights |-> <<"Keep it simple">>,
     architecture_summary |-> "Built auth service",
     original_commits |-> Len(commits), branch_name |-> branch_name]

\* squash_branch_history of the network providers; answer is the decisions
\* list parsed from the backend's response
BackendSquash(branch_name, commits, answer) ==
    IF Len(commits) = 0
    THEN [decisions |-> <<>>, rejected_alternatives |-> <<>>,
          key_insights |-> <<>>,
          architecture_summary |-> "No commits in branch",
          original_commits |-> 0, branch_name |-> branch_name]
    ELSE [decisions |-> answer, rejected_alternatives |-> <<>>,
          key_insights |-> <<>>, architecture_summary |-> "",
          original_commits |-> Len(commits), branch_name |-> branch_name]

\* whether squash_branch_history reaches the backend (_call)
BackendCalled(commits) == Len(commits) > 0

----------------------------------------------------------------------------
(* GitContext *)

\* a name test that knows '/' only
HasSeparator_slash(name) == \E i \in 1..Len(name) : name[i] = "/"

HasSeparator(name) == \E i \in 1..Len(name) : name[i] \in {"/", "\\"}

\* an init() that does not look at the storage
storage_exists_never == FALSE

\* FileSystemStorage.exists() of the context directory
storage_exists == contextDir

\* merge with the self-merge test dropped
merge_error_noself(index, name) ==
    IF name \notin DOMAIN index.branches THEN "MergeError: not found"
    ELSE "ok"

\* the two refusals of merge, in the order the code tests them
merge_error(index, name) ==
    IF name = get_current_branch(index) THEN "MergeError: into itself"
    ELSE IF name \notin DOMAIN index.branches THEN "MergeError: not found"
    ELSE "ok"

\* the operation last called, its arguments and its outcome: llm tells
\* whether the analysis provider was invoked, ret is the commit id created,
\* decisions the decisions of the ContextCommit that commit() constructed
Call(op, branch, from, squash) ==
    [op |-> op, branch |-> branch, from |-> from, squash |-> squash,
     result |-> "ok", llm |-> FALSE, ret |-> NoCommit, decisions |-> <<>>]

Init ==
    /\ contextDir = FALSE
    /\ disk = <<>>
    /\ cache = <<>>
    /\ provider = "mock"
    /\ commitStore = <<>>
    /\ otaStore = {}
    /\ branchDirs = {}
    /\ archive = <<>>
    /\ nextId = 1
    /\ worktree = {}
    /\ otherCache = <<>>
    /\ pending = <<>>
    /\ last = Call("new", NoBranch, NoBranch, FALSE)

\* GitContext.__init__: a fresh engine instance on the same repository
NewEngine ==
    /\ cache' = <<>>
    /\ last' = Call("new", NoBranch, NoBranch, FALSE)
    /\ UNCHANGED <<worktree, otherCache, pending, contextDir, disk, provider, commitStore, otaStore,
                   branchDirs, archive, nextId>>

\* the working tree changes: tracked files are added, removed or rewritten
edit(files) ==
    /\ files # worktree
    /\ worktree' = files
    /\ UNCHANGED <<contextDir, disk, cache, provider, commitStore, otaStore,
                   branchDirs, archive, nextId, otherCache, pending, last>>

\* status(): the current branch, its commit count and the uncommitted flag
status(index, store) ==
    LET current_branch == get_current_branch(index)
        current_commit == get_current_commit(index, current_branch)
        latest_commit == IF current_commit # NoCommit
                         THEN _load_commit(store, current_commit, current_branch)
                         ELSE <<>>
        current_files == get_files_snapshot
    IN  [current_branch |-> current_branch,
         commits |-> Len(get_commits(index, current_branch)),
         uncommitted_changes |->
            IF Len(latest_commit) > 0
            THEN current_files # latest_commit[1].files_snapshot
            ELSE FALSE]

\* the other of two engine instances on the repository takes its turn: its
\* IndexManager holds its own _cache
SwitchEngine ==
    /\ cache' = otherCache
    /\ otherCache' = cache
    /\ last' = Call("switch", NoBranch, NoBranch, FALSE)
    /\ UNCHANGED <<contextDir, disk, provider, commitStore, otaStore,
                   branchDirs, archive, nextId, worktree, pending>>

\* status(), and the first step of every operation: IndexManager.load()
\* fills the instance's cache
status_call ==
    /\ cache' = <<load>>
    /\ last' = Call("status", NoBranch, NoBranch, FALSE)
    /\ UNCHANGED <<contextDir, disk, provider, commitStore, otaStore,
                   branchDirs, archive, nextId, worktree, otherCache, pending>>

init ==
    IF storage_exists
    THEN /\ last' = [Call("init", NoBranch, NoBranch, FALSE) EXCEPT
                        !.result = "already initialized"]
         /\ UNCHANGED <<worktree, otherCache, pending, contextDir, disk, cache, provider, commitStore,
                        otaStore, branchDirs, archive, nextId>>
    ELSE /\ nextId <= MaxIds
         /\ LET index == load
                initial_commit ==
                    [id |-> nextId, message |-> <<"Initial context">>,
                     timestamp |-> Now, parent |-> NoCommit,
                     decisions |-> <<"Repository initialized with GitContext">>,
                     alternatives |-> <<>>, ota_logs |-> <<>>,
                     files_snapshot |-> {}, metadata |-> NoMetadata]
                index2 == add_commit(index, Main, nextId)
            IN  /\ commitStore' = _save_commit(commitStore, initial_commit, Main)
                /\ cache' = <<index2>>
                /\ disk' = <<index2>>
                /\ last' = [Call("init", NoBranch, NoBranch, FALSE) EXCEPT
                               !.ret = nextId]
         /\ contextDir' = TRUE
         /\ nextId' = nextId + 1
         /\ UNCHANGED <<worktree, otherCache, pending, provider, otaStore, branchDirs, archive>>

\* branch that also checks the new branch out
branch_switching(name, from_branch) ==
    LET call == Call("branch", name, from_branch, FALSE)
    IN
    IF name = EmptyName \/ HasSeparator(name)
    THEN /\ last' = [call EXCEPT !.result = "BranchError: invalid name"]
         /\ UNCHANGED <<worktree, otherCache, pending, contextDir, disk, cache, provider, commitStore,
                        otaStore, branchDirs, archive, nextId>>
    ELSE LET index == load
             source == IF from_branch \notin {NoBranch, EmptyName}
                       THEN from_branch
                       ELSE get_current_branch(index)
             created == set_current_branch(create_branch(index, name, source),
                                           name)
         IN  IF create_branch_error(index, name, source) # "ok"
             THEN /\ last' = [call EXCEPT
                                 !.result = create_branch_error(index, name, source)]
                  /\ cache' = <<index>>
                  /\ UNCHANGED <<worktree, otherCache, pending, contextDir, disk, provider, commitStore,
                                 otaStore, branchDirs, archive, nextId>>
             ELSE /\ cache' = <<created>>
                  /\ disk' = <<created>>
                  /\ contextDir' = TRUE
                  /\ branchDirs' = branchDirs \cup {name}
                  /\ last' = call
                  /\ UNCHANGED <<worktree, otherCache, pending, provider, commitStore, otaStore, archive,
                                 nextId>>

branch(name, from_branch) ==
    LET call == Call("branch", name, from_branch, FALSE)
    IN
    IF name = EmptyName \/ HasSeparator(name)
    THEN /\ last' = [call EXCEPT !.result = "BranchError: invalid name"]
         /\ UNCHANGED <<worktree, otherCache, pending, contextDir, disk, cache, provider, commitStore,
                        otaStore, branchDirs, archive, nextId>>
    ELSE LET index == load
             source == IF from_branch \notin {NoBranch, EmptyName}
                       THEN from_branch
                       ELSE get_current_branch(index)
         IN  IF create_branch_error(index, name, source) # "ok"
             THEN /\ last' = [call EXCEPT
                                 !.result = create_branch_error(index, name, source)]
                  /\ cache' = <<index>>
                  /\ UNCHANGED <<worktree, otherCache, pending, contextDir, disk, provider, commitStore,
                                 otaStore, branchDirs, archive, nextId>>
             ELSE /\ cache' = <<create_branch(index, name, source)>>
                  /\ disk' = <<create_branch(index, name, source)>>
                  /\ contextDir' = TRUE
                  /\ branchDirs' = branchDirs \cup {name}
                  /\ last' = call
                  /\ UNCHANGED <<worktree, otherCache, pending, provider, commitStore, otaStore, archive,
                                 nextId>>

checkout(name) ==
    LET call == Call("checkout", name, NoBranch, FALSE)
        index == load
    IN  IF set_current_branch_error(index, name) # "ok"
        THEN /\ last' = [call EXCEPT
                            !.result = set_current_branch_error(index, name)]
             /\ cache' = <<index>>
             /\ UNCHANGED <<worktree, otherCache, pending, contextDir, disk, provider, commitStore, otaStore,
                            branchDirs, archive, nextId>>
        ELSE /\ cache' = <<set_current_branch(index, name)>>
             /\ disk' = <<set_current_branch(index, name)>>
             /\ contextDir' = TRUE
             /\ last' = call
             /\ UNCHANGED <<worktree, otherCache, pending, provider, commitStore, otaStore, branchDirs,
                            archive, nextId>>

\* commit that stores the commit document before it calls the provider
commit_saving_first(message, ota_logs, decisions, llm_ok, answer) ==
    LET index == load
        current_branch == get_current_branch(index)
        failed == Len(ota_logs) > 0 /\ provider = "backend" /\ ~llm_ok
    IN  /\ nextId <= MaxIds
        /\ commitStore' = _save_commit(commitStore,
                [id |-> nextId, message |-> message, timestamp |-> Now,
                 parent |-> get_current_commit(index, current_branch),
                 decisions |-> decisions.value,
                 alternatives |-> <<>>, ota_logs |-> <<>>,
                 files_snapshot |-> get_files_snapshot,
                 metadata |-> NoMetadata], current_branch)
        /\ last' = [Call("commit", NoBranch, NoBranch, FALSE) EXCEPT
                       !.result = IF failed THEN "backend error" ELSE "ok",
                       !.llm = Len(ota_logs) > 0]
        /\ cache' = <<index>>
        /\ nextId' = nextId + 1
        /\ UNCHANGED <<contextDir, disk, provider, otaStore, branchDirs,
                       archive, worktree, otherCache, pending>>

\* llm_ok: whether a backend call returns; answer: the decisions it returns
commit(message, ota_logs, decisions, llm_ok, answer) ==
    LET call == Call("commit", NoBranch, NoBranch, FALSE)
        index == load
        current_branch == get_current_branch(index)
        current_commit == get_current_commit(index, current_branch)
        analysed == Len(ota_logs) > 0
    IN
    IF analysed /\ provider = "backend" /\ ~llm_ok
    THEN /\ last' = [call EXCEPT !.result = "backend error", !.llm = TRUE]
         /\ cache' = <<index>>
         /\ UNCHANGED <<worktree, otherCache, pending, contextDir, disk, provider, commitStore, otaStore,
                        branchDirs, archive, nextId>>
    ELSE /\ nextId <= MaxIds
         /\ LET analysis_decisions ==
                    IF provider = "mock" THEN MockAnalysisDecisions ELSE answer
                new_commit ==
                    [id |-> nextId, message |-> message,
                     timestamp |-> Now, parent |-> current_commit,
                     decisions |->
                        IF analysed /\ Len(decisions.value) = 0
                        THEN analysis_decisions ELSE decisions.value,
                     alternatives |->
                        IF analysed /\ provider = "mock"
                        THEN MockAlternatives ELSE <<>>,
                     ota_logs |-> ota_logs,
                     files_snapshot |-> get_files_snapshot,
                     metadata |->
                        IF analysed /\ provider = "mock"
                        THEN [NoMetadata EXCEPT !.insights = MockInsights]
                        ELSE NoMetadata]
            IN  IF ~json_dump_ok(to_dict(new_commit))
                THEN \* _save_commit raises; a truncated commit.json that no
                     \* Index list names may be left in the new directory
                     /\ last' = [call EXCEPT !.result = "TypeError",
                                             !.llm = analysed,
                                             !.decisions = new_commit.decisions]
                     /\ cache' = <<index>>
                     /\ branchDirs' = IF current_branch = Main THEN branchDirs
                                       ELSE branchDirs \cup {current_branch}
                     /\ UNCHANGED <<disk, commitStore, otaStore>>
                ELSE /\ commitStore' = _save_commit(commitStore, new_commit,
                                                  current_branch)
                     /\ branchDirs' = IF current_branch = Main THEN branchDirs
                                       ELSE branchDirs \cup {current_branch}
                     /\ IF current_branch \notin DOMAIN index.branches
                        THEN /\ last' = [call EXCEPT !.result = "StorageError: not found",
                                                     !.llm = analysed,
                                                     !.decisions = new_commit.decisions]
                             /\ cache' = <<index>>
                             /\ UNCHANGED <<worktree, otherCache, pending, disk, otaStore>>
                        ELSE /\ cache' = <<add_commit(index, current_branch, nextId)>>
                             /\ disk' = <<add_commit(index, current_branch, nextId)>>
                             /\ otaStore' = IF analysed
                                            THEN otaStore \cup {<<current_branch, nextId>>}
                                            ELSE otaStore
                             /\ last' = [call EXCEPT !.ret = nextId, !.llm = analysed,
                                                     !.decisions = new_commit.decisions]
         /\ contextDir' = TRUE
         /\ nextId' = nextId + 1
         /\ UNCHANGED <<worktree, otherCache, pending, provider, archive>>

\* _apply_squash_result that starts a new history and keeps no decisions
squash_commit_detached(result, id, parent) ==
    [id |-> id, message |-> <<"Squash merge: ">> \o result.branch_name,
     timestamp |-> Now, parent |-> NoCommit, decisions |-> <<>>,
     alternatives |-> result.rejected_alternatives, ota_logs |-> <<>>,
     files_snapshot |-> get_files_snapshot,
     metadata |-> [squash_merge |-> TRUE,
                   source_branch |-> result.branch_name,
                   original_commits |-> result.original_commits,
                   insights |-> result.key_insights,
                   architecture_summary |-> result.architecture_summary]]

\* _apply_squash_result: the commit synthesised from a SquashResult
squash_commit(result, id, parent) ==
    [id |-> id, message |-> <<"Squash merge: ">> \o result.branch_name,
     timestamp |-> Now, parent |-> parent, decisions |-> result.decisions,
     alternatives |-> result.rejected_alternatives, ota_logs |-> <<>>,
     files_snapshot |-> get_files_snapshot,
     metadata |-> [squash_merge |-> TRUE,
                   source_branch |-> result.branch_name,
                   original_commits |-> result.original_commits,
                   insights |-> result.key_insights,
                   architecture_summary |-> result.architecture_summary]]

\* _archive_branch: the archive directory once branch.json is written;
\* summary tells whether summary.md is in it
archive_document(name, commits, result) ==
    [branch |-> name, commits |-> commits, squash_result |-> result,
     summary |-> FALSE]

\* _archive_branch: save_text(result.to_markdown(), archive_dir, "summary.md")
save_summary(directory) == [directory EXCEPT !.summary = TRUE]

\* the simple-merge loop: save each commit under the current branch
RECURSIVE copy_commits(_, _, _)
copy_commits(store, commits, current_branch) ==
    IF Len(commits) = 0 THEN store
    ELSE copy_commits(_save_commit(store, Head(commits), current_branch),
                      Tail(commits), current_branch)

\* the simple-merge loop: add each commit id to the current branch
RECURSIVE add_commits(_, _, _)
add_commits(index, commits, current_branch) ==
    IF Len(commits) = 0 THEN index
    ELSE add_commits(add_commit(index, current_branch, Head(commits).id),
                     Tail(commits), current_branch)

\* archive_write: whether the writes of _archive_branch succeed, and if not
\* which one raises
merge(name, squash, llm_ok, answer, archive_write) ==
    LET call == Call("merge", name, NoBranch, squash)
        index == load
        current_branch == get_current_branch(index)
        commits == _get_branch_commits(index, commitStore, name)
        called == squash /\ (provider = "mock" \/ BackendCalled(commits))
        result == IF provider = "mock" THEN MockSquash(name, commits)
                  ELSE BackendSquash(name, commits, answer)
    IN
    IF merge_error(index, name) # "ok"
    THEN /\ last' = [call EXCEPT !.result = merge_error(index, name)]
         /\ cache' = <<index>>
         /\ UNCHANGED <<worktree, otherCache, pending, contextDir, disk, provider, commitStore, otaStore,
                        branchDirs, archive, nextId>>
    ELSE IF squash /\ provider = "backend" /\ BackendCalled(commits) /\ ~llm_ok
    THEN /\ last' = [call EXCEPT !.result = "backend error", !.llm = TRUE]
         /\ cache' = <<index>>
         /\ UNCHANGED <<worktree, otherCache, pending, contextDir, disk, provider, commitStore, otaStore,
                        branchDirs, archive, nextId>>
    ELSE IF squash /\ archive_write # "ok"
    THEN /\ archive_write = "summary.md fails" => Len(archive) < MaxLen
         /\ last' = [call EXCEPT !.result = "OSError", !.llm = called]
         /\ archive' = IF archive_write = "summary.md fails"
                       THEN Append(archive,
                                   archive_document(name, commits, result))
                       ELSE archive
         /\ cache' = <<index>>
         /\ UNCHANGED <<worktree, otherCache, pending, contextDir, disk, provider, commitStore,
                        otaStore, branchDirs, nextId>>
    ELSE IF squash
    THEN /\ nextId <= MaxIds
         /\ LET new_commit == squash_commit(result, nextId,
                                 get_current_commit(index, current_branch))
                applied == add_commit(index, current_branch, nextId)
                error == delete_branch_error(applied, name)
                final == IF error = "ok" THEN delete_branch(applied, name)
                         ELSE applied
            IN  /\ archive' = Append(archive,
                      save_summary(archive_document(name, commits, result)))
                /\ cache' = <<final>>
                /\ disk' = <<final>>
                /\ commitStore' =
                      IF error = "ok"
                      THEN storage_delete(
                             _save_commit(commitStore, new_commit, current_branch),
                             name)
                      ELSE _save_commit(commitStore, new_commit, current_branch)
                /\ otaStore' = IF error = "ok"
                               THEN storage_delete_ota(otaStore, name)
                               ELSE otaStore
                /\ branchDirs' =
                      IF error = "ok"
                      THEN (branchDirs \cup ({current_branch} \ {Main})) \ {name}
                      ELSE branchDirs \cup ({current_branch} \ {Main})
                /\ last' = [call EXCEPT !.result = error, !.llm = called,
                                        !.ret = nextId]
         /\ nextId' = nextId + 1
         /\ UNCHANGED <<worktree, otherCache, pending, contextDir, provider>>
    ELSE /\ Len(get_commits(index, current_branch)) + Len(commits) <= MaxLen
         /\ LET applied == add_commits(index, commits, current_branch)
                copied == copy_commits(commitStore, commits, current_branch)
                error == delete_branch_error(applied, name)
                final == IF error = "ok" THEN delete_branch(applied, name)
                         ELSE applied
                dirs == IF Len(commits) > 0
                        THEN branchDirs \cup ({current_branch} \ {Main})
                        ELSE branchDirs
            IN  /\ cache' = <<final>>
                /\ IF Len(commits) > 0 \/ error = "ok"
                   THEN disk' = <<final>>
                   ELSE UNCHANGED disk
                /\ commitStore' = IF error = "ok" THEN storage_delete(copied, name)
                                  ELSE copied
                /\ otaStore' = IF error = "ok"
                               THEN storage_delete_ota(otaStore, name)
                               ELSE otaStore
                /\ branchDirs' = IF error = "ok" THEN dirs \ {name} ELSE dirs
                /\ last' = [call EXCEPT !.result = error]
         /\ UNCHANGED <<worktree, otherCache, pending, contextDir, provider, archive, nextId>>

\* cli/main.py branch_delete: index.delete_branch, then storage.delete
branch_delete(name) ==
    LET call == Call("branch_delete", name, NoBranch, FALSE)
        index == load
        error == delete_branch_error(index, name)
    IN  IF error # "ok"
        THEN /\ last' = [call EXCEPT !.result = error]
             /\ cache' = <<index>>
             /\ UNCHANGED <<worktree, otherCache, pending, contextDir, disk, provider, commitStore, otaStore,
                            branchDirs, archive, nextId>>
        ELSE /\ cache' = <<delete_branch(index, name)>>
             /\ disk' = <<delete_branch(index, name)>>
             /\ commitStore' = storage_delete(commitStore, name)
             /\ otaStore' = storage_delete_ota(otaStore, name)
             /\ branchDirs' = branchDirs \ {name}
             /\ last' = call
             /\ UNCHANGED <<worktree, otherCache, pending, contextDir, provider, archive, nextId>>

Next ==
    \/ NewEngine
    \/ init
    \/ \E name \in BranchArgs, from \in FromArgs : branch(name, from)
    \/ \E name \in RefArgs : checkout(name)
    \/ \E message \in Messages, decisions \in DecisionArgs :
            commit(message, <<>>, decisions, TRUE, <<>>)
    \/ \E name \in RefArgs, squash \in BOOLEAN :
            merge(name, squash, TRUE, <<>>, "ok")
    \/ \E name \in RefArgs : branch_delete(name)

Spec == Init /\ [][Next]_vars

\* The engine over three branch names: every branch can be created (from
\* the current branch or from dev), checked out, committed to and squash
\* merged; the simple merge is driven for dev.
Next3 ==
    \/ init
    \/ \E name \in ThreeBranches \ {Main}, from \in {NoBranch, Dev} :
            branch(name, from)
    \/ \E name \in ThreeBranches : checkout(name)
    \/ \E message \in Messages :
            commit(message, <<>>, [given |-> TRUE, value |-> UseX], TRUE, <<>>)
    \/ \E name \in ThreeBranches \ {Main} : merge(name, TRUE, TRUE, <<>>, "ok")
    \/ merge(Dev, FALSE, TRUE, <<>>, "ok")

Spec3 == Init /\ [][Next3]_vars

\* The engine on a working tree that is edited between calls: main and dev,
\* commits with explicit decisions, squash merge of dev.
NextFiles ==
    \/ init
    \/ \E files \in Snapshots : edit(files)
    \/ branch(Dev, NoBranch)
    \/ \E name \in {Main, Dev} : checkout(name)
    \/ \E message \in Messages :
            commit(message, <<>>, [given |-> TRUE, value |-> UseX], TRUE, <<>>)
    \/ merge(Dev, TRUE, TRUE, <<>>, "ok")

SpecFiles == Init /\ [][NextFiles]_vars

\* The engine configured with a network provider: the backend call of a
\* commit with OTA logs, or of a squash merge, returns an answer or raises.
InitBackend ==
    /\ contextDir = FALSE
    /\ disk = <<>>
    /\ cache = <<>>
    /\ provider = "backend"
    /\ commitStore = <<>>
    /\ otaStore = {}
    /\ branchDirs = {}
    /\ archive = <<>>
    /\ nextId = 1
    /\ worktree = {}
    /\ otherCache = <<>>
    /\ pending = <<>>
    /\ last = Call("new", NoBranch, NoBranch, FALSE)

NextBackend ==
    \/ init
    \/ branch(Dev, NoBranch)
    \/ \E name \in {Main, Dev} : checkout(name)
    \/ \E message \in Messages, ota_logs \in OtaArgs, llm_ok \in BOOLEAN,
          answer \in Answers :
            commit(message, ota_logs, [given |-> FALSE, value |-> <<>>],
                   llm_ok, answer)
    \/ \E llm_ok \in BOOLEAN, answer \in Answers :
            merge(Dev, TRUE, llm_ok, answer, "ok")

SpecBackend == InitBackend /\ [][NextBackend]_vars

\* The engine (offline stub) on a storage whose archive writes may fail.
NextArchive ==
    \/ init
    \/ branch(Dev, NoBranch)
    \/ \E name \in {Main, Dev} : checkout(name)
    \/ \E message \in Messages, decisions \in DecisionArgs :
            commit(message, <<>>, decisions, TRUE, <<>>)
    \/ \E archive_write \in ArchiveWrites :
            merge(Dev, TRUE, TRUE, <<>>, archive_write)

SpecArchive == Init /\ [][NextArchive]_vars

\* Commit values: with and without decisions, alternatives, OTA logs,
\* tracked files, a parent, microseconds in the timestamp
Commits ==
    [id : 1..MaxIds, message : Messages, timestamp : DateTimes,
     parent : Parents, decisions : {<<>>, UseX},
     alternatives : {<<>>, MockAlternatives}, ota_logs : OtaArgs,
     files_snapshot : Snapshots, metadata : {NoMetadata}]

\* A commit value and a branch are given; it is saved, then loaded back.
InitRoundTrip ==
    /\ contextDir = FALSE
    /\ disk = <<>>
    /\ cache = <<>>
    /\ provider = "mock"
    /\ commitStore = <<>>
    /\ otaStore = {}
    /\ branchDirs = {}
    /\ archive = <<>>
    /\ nextId = 1
    /\ worktree = {}
    /\ otherCache = <<>>
    /\ pending = <<>>
    /\ \E c \in Commits, b \in {Main, Dev} :
            last = [op |-> "new", commit |-> c, branch |-> b,
                    result |-> "ok", ret |-> <<>>]

\* _save_commit(commit, branch): commit.to_dict() written by json.dump
SaveCommit ==
    /\ last.op = "new"
    /\ IF json_dump_ok(to_dict(last.commit))
       THEN /\ commitStore' = _save_commit(commitStore, last.commit, last.branch)
            /\ last' = [last EXCEPT !.op = "_save_commit"]
       ELSE /\ last' = [last EXCEPT !.op = "_save_commit",
                                    !.result = "TypeError"]
            /\ UNCHANGED commitStore
    /\ contextDir' = TRUE
    /\ branchDirs' = IF last.branch = Main THEN branchDirs
                     ELSE branchDirs \cup {last.branch}
    /\ UNCHANGED <<disk, cache, provider, otaStore, archive, nextId, worktree,
                   otherCache, pending>>

\* _load_commit(commit.id, branch) after a save that succeeded
LoadCommit ==
    /\ last.op = "_save_commit"
    /\ last.result = "ok"
    /\ last' = [last EXCEPT
                  !.op = "_load_commit",
                  !.ret = _load_commit(commitStore, last.commit.id, last.branch)]
    /\ UNCHANGED <<contextDir, disk, cache, provider, commitStore, otaStore,
                   branchDirs, archive, nextId, worktree, otherCache, pending>>

NextRoundTrip ==
    \/ SaveCommit
    \/ LoadCommit

SpecRoundTrip == InitRoundTrip /\ [][NextRoundTrip]_vars

\* The engine asked to create branches under valid and invalid names.
NextNames ==
    \/ init
    \/ \E name \in NameArgs, from \in {NoBranch, Main} : branch(name, from)
    \/ \E name \in {Main, Dev} : checkout(name)
    \/ \E message \in Messages, decisions \in DecisionArgs :
            commit(message, <<>>, decisions, TRUE, <<>>)

SpecNames == Init /\ [][NextNames]_vars

\* Two engine instances on one repository, taking turns between whole
\* operations.
NextTwo ==
    \/ init
    \/ SwitchEngine
    \/ status_call
    \/ branch(Dev, NoBranch)
    \/ \E name \in {Main, Dev} : checkout(name)
    \/ \E message \in Messages :
            commit(message, <<>>, [given |-> TRUE, value |-> UseX], TRUE, <<>>)

SpecTwo == Init /\ [][NextTwo]_vars

\* commits with and without OTA logs, with and without explicit decisions
NextDecisions ==
    \/ init
    \/ \E files \in Snapshots : edit(files)
    \/ branch(Dev, NoBranch)
    \/ \E name \in {Main, Dev} : checkout(name)
    \/ \E message \in Messages, ota_logs \in OtaArgs,
          decisions \in DecisionArgs \cup ExplicitDecisionArgs :
            commit(message, ota_logs, decisions, TRUE, <<>>)

SpecDecisions == Init /\ [][NextDecisions]_vars

----------------------------------------------------------------------------
(* The legacy engine (gitcontext/core.py): there is no IndexManager, every
   operation reads index.yaml at its start and writes back the dict it read *)

\* legacy ContextCommit.to_dict and OTALog.to_dict (dataclasses): asdict,
\* with each timestamp as ISO text
core_to_dict(c) ==
    [c EXCEPT
        !.timestamp = isoformat(c.timestamp),
        !.ota_logs = [k \in DOMAIN c.ota_logs |->
                        [c.ota_logs[k] EXCEPT
                            !.timestamp = isoformat(c.ota_logs[k].timestamp)]]]

\* legacy ContextCommit.from_dict and OTALog.from_dict
core_from_dict(data) ==
    [data EXCEPT
        !.timestamp = fromisoformat(data.timestamp),
        !.ota_logs = [k \in DOMAIN data.ota_logs |->
                        [data.ota_logs[k] EXCEPT
                            !.timestamp = fromisoformat(data.ota_logs[k].timestamp)]]]

\* legacy _save_commit: commit.json under the branch's history directory
core_save_commit(store, c, name) ==
    (<<name, c.id>> :> core_to_dict(c)) @@ store

\* legacy _load_commit: None when the branch's directory has no such commit
core_load_commit(store, commit_id, name) ==
    IF <<name, commit_id>> \in DOMAIN store
    THEN <<core_from_dict(store[<<name, commit_id>>])>>
    ELSE <<>>

\* the loop of the legacy _get_branch_commits: the commits that load
RECURSIVE core_load_commits(_, _, _)
core_load_commits(store, commit_ids, name) ==
    IF Len(commit_ids) = 0 THEN <<>>
    ELSE core_load_commit(store, Head(commit_ids), name)
            \o core_load_commits(store, Tail(commit_ids), name)

\* legacy _get_branch_commits
core_get_branch_commits(index, store, name) ==
    IF name \notin DOMAIN index.branches THEN <<>>
    ELSE core_load_commits(store, index.branches[name].commits, name)

\* number of OTA logs of a list of commits
RECURSIVE core_ota_count(_)
core_ota_count(commits) ==
    IF Len(commits) = 0 THEN 0
    ELSE Len(Head(commits).ota_logs) + core_ota_count(Tail(commits))

\* LLMAnalyzer.squash_branch_history with the mock response (to which every
\* provider falls back): a fixed result for no commits, else the parsed JSON
core_squash_branch_history(branch_name, commits) ==
    IF Len(commits) = 0
    THEN [decisions |-> <<>>, rejected_alternatives |-> <<>>,
          key_insights |-> <<>>,
          architecture_summary |-> "No commits in branch",
          ota_count |-> 0, original_commits |-> 0,
          branch_name |-> branch_name]
    ELSE [decisions |-> <<"Use JWT for authentication",
                          "Implement Redis caching for sessions",
                          "Use PostgreSQL for main database">>,
          rejected_alternatives |->
              <<[what |-> "Session-based auth",
                 why_rejected |-> "Scalability issues"],
                [what |-> "MongoDB",
                 why_rejected |-> "Need ACID transactions"]>>,
          key_insights |-> <<"JWT works better with microservices",
                             "Redis TTL should be 15 minutes for security">>,
          architecture_summary |-> "Built a scalable authentication service",
          ota_count |-> core_ota_count(commits),
          original_commits |-> Len(commits),
          branch_name |-> branch_name]

\* the commit the legacy _apply_squash_result constructs
core_squash_commit(result, id, parent) ==
    [id |-> id, message |-> <<"Squash merge: ">> \o result.branch_name,
     timestamp |-> Now, parent |-> parent, decisions |-> result.decisions,
     alternatives |-> result.rejected_alternatives, ota_logs |-> <<>>,
     files_snapshot |-> worktree,
     metadata |-> [squash_merge |-> TRUE,
                   source_branch |-> result.branch_name,
                   original_commits |-> result.original_commits,
                   insights |-> result.key_insights,
                   architecture_summary |-> result.architecture_summary]]

\* the index.yaml that the legacy _apply_squash_result writes: the file as
\* it is then, with the squash commit appended to the current branch
core_apply_squash_result(index, id) ==
    [index EXCEPT
        !.branches[index.current_branch].commits = Append(@, id),
        !.branches[index.current_branch].current_commit = id]

\* the legacy init()
core_init ==
    IF contextDir
    THEN /\ last' = [Call("init", NoBranch, NoBranch, FALSE) EXCEPT
                        !.result = "already exists"]
         /\ UNCHANGED <<contextDir, disk, cache, provider, commitStore,
                        otaStore, branchDirs, archive, nextId, worktree,
                        otherCache, pending>>
    ELSE /\ nextId <= MaxIds
         /\ LET initial_commit ==
                    [id |-> nextId, message |-> <<"Initial context">>,
                     timestamp |-> Now, parent |-> NoCommit,
                     decisions |-> <<"Repository initialized with GitContext">>,
                     alternatives |-> <<>>, ota_logs |-> <<>>,
                     files_snapshot |-> {}, metadata |-> NoMetadata]
            IN  /\ commitStore' = core_save_commit(commitStore, initial_commit, Main)
                /\ disk' = <<[current_branch |-> Main,
                              branches |-> (Main :>
                                  [current_commit |-> nextId,
                                   commits |-> <<nextId>>,
                                   parent |-> NoBranch])]>>
                /\ last' = [Call("init", NoBranch, NoBranch, FALSE) EXCEPT
                               !.ret = nextId]
         /\ contextDir' = TRUE
         /\ nextId' = nextId + 1
         /\ UNCHANGED <<cache, provider, otaStore, branchDirs, archive,
                        worktree, otherCache, pending>>

\* the legacy branch(name, from_branch)
core_branch(name, from_branch) ==
    LET call == Call("branch", name, from_branch, FALSE)
        refused(why) ==
            /\ last' = [call EXCEPT !.result = why]
            /\ UNCHANGED <<contextDir, disk, cache, provider, commitStore,
                           otaStore, branchDirs, archive, nextId, worktree,
                           otherCache, pending>>
    IN
    IF name = EmptyName \/ \E k \in DOMAIN name : name[k] = "\\"
    THEN refused("ValueError: invalid name")
    ELSE IF Len(disk) = 0
    THEN refused("KeyError")
    ELSE LET index == disk[1]
             source == IF from_branch = NoBranch THEN index.current_branch
                       ELSE from_branch
         IN  IF name \in DOMAIN index.branches
             THEN refused("ValueError: exists")
             ELSE IF source \notin DOMAIN index.branches
             THEN refused("ValueError: not found")
             ELSE /\ disk' = <<[index EXCEPT !.branches =
                        (name :> [current_commit |->
                                      index.branches[source].current_commit,
                                  commits |-> index.branches[source].commits,
                                  parent |-> source]) @@ @]>>
                  /\ branchDirs' = branchDirs \cup {name}
                  /\ last' = call
                  /\ UNCHANGED <<contextDir, cache, provider, commitStore,
                                 otaStore, archive, nextId, worktree,
                                 otherCache, pending>>

\* the legacy checkout(branch)
core_checkout(name) ==
    LET call == Call("checkout", name, NoBranch, FALSE)
    IN
    IF Len(disk) = 0 \/ name \notin DOMAIN disk[1].branches
    THEN /\ last' = [call EXCEPT !.result =
                        IF Len(disk) = 0 THEN "KeyError"
                        ELSE "ValueError: not found"]
         /\ UNCHANGED <<contextDir, disk, cache, provider, commitStore,
                        otaStore, branchDirs, archive, nextId, worktree,
                        otherCache, pending>>
    ELSE /\ disk' = <<[disk[1] EXCEPT !.current_branch = name]>>
         /\ last' = call
         /\ UNCHANGED <<contextDir, cache, provider, commitStore, otaStore,
                        branchDirs, archive, nextId, worktree, otherCache, pending>>

\* the legacy commit(message, None, decisions): no OTA logs, no analysis
core_commit(message, decisions) ==
    LET call == Call("commit", NoBranch, NoBranch, FALSE)
    IN
    IF Len(disk) = 0
    THEN /\ last' = [call EXCEPT !.result = "KeyError"]
         /\ UNCHANGED <<contextDir, disk, cache, provider, commitStore,
                        otaStore, branchDirs, archive, nextId, worktree,
                        otherCache, pending>>
    ELSE /\ nextId <= MaxIds
         /\ LET index == disk[1]
                current_branch == index.current_branch
                commit_ ==
                    [id |-> nextId, message |-> message,
                     timestamp |-> Now,
                     parent |-> index.branches[current_branch].current_commit,
                     decisions |-> decisions.value,
                     alternatives |-> <<>>, ota_logs |-> <<>>,
                     files_snapshot |-> worktree, metadata |-> NoMetadata]
            IN  /\ commitStore' = core_save_commit(commitStore, commit_,
                                                   current_branch)
                /\ disk' = <<[index EXCEPT
                        !.branches[current_branch].commits = Append(@, nextId),
                        !.branches[current_branch].current_commit = nextId]>>
                /\ branchDirs' = IF current_branch = Main THEN branchDirs
                                 ELSE branchDirs \cup {current_branch}
                /\ last' = [call EXCEPT !.ret = nextId,
                                        !.decisions = decisions.value]
         /\ nextId' = nextId + 1
         /\ UNCHANGED <<contextDir, cache, provider, otaStore, archive,
                        worktree, otherCache, pending>>

\* the legacy merge(branch, squash); ret is the id of the squash commit
core_merge(name, squash) ==
    LET call == Call("merge", name, NoBranch, squash)
        refused(why) ==
            /\ last' = [call EXCEPT !.result = why]
            /\ UNCHANGED <<contextDir, disk, cache, provider, commitStore,
                           otaStore, branchDirs, archive, nextId, worktree,
                           otherCache, pending>>
    IN
    IF Len(disk) = 0
    THEN refused("KeyError")
    ELSE LET index == disk[1]
             current_branch == index.current_branch
             commits == core_get_branch_commits(index, commitStore, name)
             result == core_squash_branch_history(name, commits)
             squashed == core_squash_commit(result, nextId,
                            index.branches[current_branch].current_commit)
             saved == core_save_commit(commitStore, squashed, current_branch)
         IN  IF name = current_branch
             THEN refused("ValueError: into itself")
             ELSE IF name \notin DOMAIN index.branches
             THEN refused("ValueError: not found")
             ELSE IF squash
             THEN /\ nextId <= MaxIds
                  /\ archive' = Append(archive,
                        save_summary(archive_document(name, commits, result)))
                  \* the successive contents of index.yaml: the write of
                  \* _apply_squash_result, then the dict that merge read at
                  \* its start, less the branch
                  /\ LET writes ==
                        <<core_apply_squash_result(index, nextId),
                          [index EXCEPT !.branches =
                              [b \in DOMAIN index.branches \ {name} |->
                                  index.branches[b]]]>>
                     IN  disk' = <<writes[Len(writes)]>>
                  /\ commitStore' =
                        [k \in {x \in DOMAIN saved :
                                    x[1] # name \/ name = Main} |-> saved[k]]
                  /\ branchDirs' = branchDirs \ {name}
                  /\ nextId' = nextId + 1
                  /\ last' = [call EXCEPT !.ret = nextId]
                  /\ UNCHANGED <<contextDir, cache, provider, otaStore,
                                 worktree, otherCache, pending>>
             ELSE \* "Simple merge": a SquashResult is returned
                  /\ last' = call
                  /\ UNCHANGED <<contextDir, disk, cache, provider,
                                 commitStore, otaStore, branchDirs, archive,
                                 nextId, worktree, otherCache, pending>>

NextCore ==
    \/ core_init
    \/ \E name \in NameArgs, from_branch \in FromArgs :
            core_branch(name, from_branch)
    \/ \E name \in RefArgs : core_checkout(name)
    \/ \E message \in Messages, decisions \in DecisionArgs :
            core_commit(message, decisions)
    \/ \E name \in RefArgs, squash \in BOOLEAN : core_merge(name, squash)

SpecCore == Init /\ [][NextCore]_vars

----------------------------------------------------------------------------
(* init, commit and the squash merge of core/context.py write by write: an
   operation starts by computing what it will write, each step makes the
   next write, and the process may stop between two writes *)

\* one write: a commit document, an Index mutation, a file of the archive
\* directory, or the removal of a branch's storage subtree
Write(w, name, commits, directories) ==
    [w |-> w, branch |-> name, commit |-> commits, directory |-> directories]

\* squash merge that removes the source branch before anything else
squash_writes_delete_first(name, commits, result, new_commit, current_branch) ==
    <<Write("delete_branch", name, <<>>, <<>>),
      Write("rmtree", name, <<>>, <<>>),
      Write("branch.json", name, <<>>,
            <<archive_document(name, commits, result)>>),
      Write("summary.md", name, <<>>, <<>>),
      Write("commit.json", current_branch, <<new_commit>>, <<>>),
      Write("add_commit", current_branch, <<new_commit>>, <<>>)>>

\* the writes of a squash merge: _archive_branch, _apply_squash_result,
\* index.delete_branch, storage.delete
squash_writes(name, commits, result, new_commit, current_branch) ==
    <<Write("branch.json", name, <<>>,
            <<archive_document(name, commits, result)>>),
      Write("summary.md", name, <<>>, <<>>),
      Write("commit.json", current_branch, <<new_commit>>, <<>>),
      Write("add_commit", current_branch, <<new_commit>>, <<>>),
      Write("delete_branch", name, <<>>, <<>>),
      Write("rmtree", name, <<>>, <<>>)>>

\* a commit whose id enters the Index before its document is written
commit_writes_index_first(new_commit, current_branch) ==
    <<Write("add_commit", current_branch, <<new_commit>>, <<>>),
      Write("commit.json", current_branch, <<new_commit>>, <<>>)>>

\* the writes of init and of commit: _save_commit, then index.add_commit
commit_writes(new_commit, current_branch) ==
    <<Write("commit.json", current_branch, <<new_commit>>, <<>>),
      Write("add_commit", current_branch, <<new_commit>>, <<>>)>>

\* init() up to its first write
begin_init ==
    /\ pending = <<>>
    /\ IF storage_exists
       THEN /\ last' = [Call("init", NoBranch, NoBranch, FALSE) EXCEPT
                           !.result = "already initialized"]
            /\ UNCHANGED <<contextDir, nextId, pending>>
       ELSE /\ nextId <= MaxIds
            /\ pending' = commit_writes(
                    [id |-> nextId, message |-> <<"Initial context">>,
                     timestamp |-> Now, parent |-> NoCommit,
                     decisions |-> <<"Repository initialized with GitContext">>,
                     alternatives |-> <<>>, ota_logs |-> <<>>,
                     files_snapshot |-> {}, metadata |-> NoMetadata], Main)
            /\ contextDir' = TRUE
            /\ nextId' = nextId + 1
            /\ last' = [Call("init", NoBranch, NoBranch, FALSE) EXCEPT
                           !.result = "running", !.ret = nextId]
    /\ UNCHANGED <<disk, cache, provider, commitStore, otaStore, branchDirs,
                   archive, worktree, otherCache>>

\* commit(message, decisions=decisions) without OTA logs, up to its first
\* write
begin_commit(message, decisions) ==
    /\ pending = <<>>
    /\ nextId <= MaxIds
    /\ LET index == load
           current_branch == get_current_branch(index)
       IN  /\ cache' = <<index>>
           /\ pending' = commit_writes(
                    [id |-> nextId, message |-> message,
                     timestamp |-> Now,
                     parent |-> get_current_commit(index, current_branch),
                     decisions |-> decisions.value,
                     alternatives |-> <<>>, ota_logs |-> <<>>,
                     files_snapshot |-> get_files_snapshot,
                     metadata |-> NoMetadata], current_branch)
           /\ last' = [Call("commit", NoBranch, NoBranch, FALSE) EXCEPT
                           !.result = "running", !.ret = nextId,
                           !.decisions = decisions.value]
    /\ nextId' = nextId + 1
    /\ UNCHANGED <<contextDir, disk, provider, commitStore, otaStore,
                   branchDirs, archive, worktree, otherCache>>

\* merge(name, squash=True) with the mock provider, up to its first write
begin_merge(name) ==
    /\ pending = <<>>
    /\ LET call == Call("merge", name, NoBranch, TRUE)
           index == load
           current_branch == get_current_branch(index)
           commits == _get_branch_commits(index, commitStore, name)
           result == MockSquash(name, commits)
       IN  /\ cache' = <<index>>
           /\ IF merge_error(index, name) # "ok"
              THEN /\ last' = [call EXCEPT !.result = merge_error(index, name)]
                   /\ UNCHANGED <<pending, nextId>>
              ELSE /\ nextId <= MaxIds
                   /\ pending' = squash_writes(name, commits, result,
                          squash_commit(result, nextId,
                              get_current_commit(index, current_branch)),
                          current_branch)
                   /\ nextId' = nextId + 1
                   /\ last' = [call EXCEPT !.result = "running",
                                           !.llm = TRUE, !.ret = nextId]
    /\ UNCHANGED <<contextDir, disk, provider, commitStore, otaStore,
                   branchDirs, archive, worktree, otherCache>>

\* the next write of the operation in progress; an Index mutation that
\* refuses ends the operation
step ==
    /\ pending # <<>>
    /\ LET write == Head(pending)
           index == load
           error ==
              IF write.w = "add_commit" /\ write.branch \notin DOMAIN index.branches
              THEN "StorageError: not found"
              ELSE IF write.w = "delete_branch"
              THEN delete_branch_error(index, write.branch)
              ELSE "ok"
       IN  /\ pending' = IF error = "ok" THEN Tail(pending) ELSE <<>>
           /\ last' = [last EXCEPT !.result =
                          IF error # "ok" THEN error
                          ELSE IF Len(pending) = 1 THEN "ok" ELSE @]
           /\ commitStore' =
                 IF write.w = "commit.json"
                 THEN _save_commit(commitStore, write.commit[1], write.branch)
                 ELSE IF write.w = "rmtree"
                 THEN storage_delete(commitStore, write.branch)
                 ELSE commitStore
           /\ otaStore' = IF write.w = "rmtree"
                          THEN storage_delete_ota(otaStore, write.branch)
                          ELSE otaStore
           /\ branchDirs' =
                 IF write.w = "commit.json"
                 THEN branchDirs \cup ({write.branch} \ {Main})
                 ELSE IF write.w = "rmtree"
                 THEN branchDirs \ {write.branch}
                 ELSE branchDirs
           /\ archive' =
                 IF write.w = "branch.json"
                 THEN Append(archive, write.directory[1])
                 ELSE IF write.w = "summary.md"
                 THEN [archive EXCEPT ![Len(archive)] = save_summary(@)]
                 ELSE archive
           /\ IF write.w = "add_commit" /\ error = "ok"
              THEN /\ cache' = <<add_commit(index, write.branch,
                                            write.commit[1].id)>>
                   /\ disk' = cache'
              ELSE IF write.w = "delete_branch" /\ error = "ok"
              THEN /\ cache' = <<delete_branch(index, write.branch)>>
                   /\ disk' = cache'
              ELSE IF write.w \in {"add_commit", "delete_branch"}
              THEN /\ cache' = <<index>>
                   /\ UNCHANGED disk
              ELSE UNCHANGED <<cache, disk>>
           /\ contextDir' = IF write.w # "rmtree" /\ error = "ok" THEN TRUE
                            ELSE contextDir
    /\ UNCHANGED <<provider, nextId, worktree, otherCache>>

\* the process stops between two writes; a new engine starts with no cache
crash ==
    /\ pending # <<>>
    /\ pending' = <<>>
    /\ cache' = <<>>
    /\ last' = [last EXCEPT !.result = "crashed"]
    /\ UNCHANGED <<contextDir, disk, provider, commitStore, otaStore,
                   branchDirs, archive, nextId, worktree, otherCache>>

NextSteps ==
    \/ begin_init
    \/ \E message \in Messages, decisions \in DecisionArgs :
            begin_commit(message, decisions)
    \/ \E name \in {Main, Dev} : begin_merge(name)
    \/ step
    \/ crash
    \/ pending = <<>> /\ branch(Dev, NoBranch)
    \/ \E name \in {Main, Dev} : pending = <<>> /\ checkout(name)

SpecSteps == Init /\ [][NextSteps]_vars

----------------------------------------------------------------------------
(* The mutators of one IndexManager instance, called directly *)

\* a save() that writes nothing
save_nothing(cached, file) == file

\* IndexManager.save: the cached document is written to the file; nothing
\* is written while there is no cached document
save(cached, file) == IF Len(cached) = 0 THEN file ELSE cached

\* a mutator: load(), the validation, then the change kept as _cache and
\* saved; a validation error is raised before any change
Mutation(call, error, changed) ==
    /\ last' = [call EXCEPT !.result = error]
    /\ cache' = IF error = "ok" THEN <<changed>> ELSE <<load>>
    /\ disk' = IF error = "ok" THEN save(<<changed>>, disk) ELSE disk
    /\ contextDir' = IF error = "ok" THEN TRUE ELSE contextDir
    /\ UNCHANGED <<provider, commitStore, otaStore, branchDirs, archive,
                   worktree, otherCache, pending>>

\* IndexManager.load() called by a reader
index_load ==
    /\ cache' = <<load>>
    /\ last' = Call("load", NoBranch, NoBranch, FALSE)
    /\ UNCHANGED <<contextDir, disk, provider, commitStore, otaStore,
                   branchDirs, archive, nextId, worktree, otherCache,
                   pending>>

index_set_current_branch(name) ==
    /\ Mutation(Call("set_current_branch", name, NoBranch, FALSE),
                set_current_branch_error(load, name),
                set_current_branch(load, name))
    /\ UNCHANGED nextId

index_create_branch(name, from_branch) ==
    /\ Mutation(Call("create_branch", name, from_branch, FALSE),
                create_branch_error(load, name, from_branch),
                create_branch(load, name, from_branch))
    /\ UNCHANGED nextId

index_delete_branch(name) ==
    /\ Mutation(Call("delete_branch", name, NoBranch, FALSE),
                delete_branch_error(load, name),
                delete_branch(load, name))
    /\ UNCHANGED nextId

\* add_commit(name, commit_id) with a new commit id
index_add_commit(name) ==
    /\ nextId <= MaxIds
    /\ Mutation([Call("add_commit", name, NoBranch, FALSE) EXCEPT
                    !.ret = nextId],
                IF name \in DOMAIN load.branches THEN "ok"
                ELSE "StorageError: not found",
                add_commit(load, name, nextId))
    /\ nextId' = nextId + 1

NextIndex ==
    \/ NewEngine
    \/ index_load
    \/ \E name \in RefArgs : index_set_current_branch(name)
    \/ \E name \in RefArgs, from_branch \in {Main, Dev} :
            index_create_branch(name, from_branch)
    \/ \E name \in RefArgs : index_delete_branch(name)
    \/ \E name \in RefArgs : index_add_commit(name)

SpecIndex == Init /\ [][NextIndex]_vars

----------------------------------------------------------------------------
(* Properties.  In an action formula the unprimed index (load) is the     *)
(* Index as the call found it and the primed one (load') the Index as the *)
(* call left it; last' names the call that made the step.                 *)

\* C1: after merge(B, squash=True) completes, B is absent from the Index,
\* the current branch's head is the newly created commit, its metadata has
\* source_branch = B and original_commits = the number of ids B's Index
\* commit list held before the merge, and the archive document written for
\* the merge holds exactly that many commit records.
C1_SquashMergeCountsIndexList ==
    [][(last'.op = "merge" /\ last'.squash /\ last'.result = "ok") =>
        LET B == last'.branch
            A == load.current_branch
            head == load'.branches[A].current_commit
            count == Len(get_commits(load, B))
        IN  /\ B \notin DOMAIN load'.branches
            /\ head = last'.ret
            /\ <<A, head>> \notin DOMAIN commitStore
            /\ <<A, head>> \in DOMAIN commitStore'
            /\ commitStore'[<<A, head>>].metadata.source_branch = B
            /\ commitStore'[<<A, head>>].metadata.original_commits = count
            /\ Len(archive') = Len(archive) + 1
            /\ Len(archive'[Len(archive')].commits) = count]_vars

\* C2: branch(name) for a name not in the Index gives name the source's
\* commit-id list as it is at creation and changes no other entry;
\* checkout(name) then makes name the current branch and changes no list;
\* a later commit changes only the current branch's list, and a later merge
\* changes no list but the current branch's and the merged branch's.
C2_BranchCopiesByValue ==
    [][/\ (last'.op = "branch" /\ last'.result = "ok") =>
            LET name == last'.branch
                source == IF last'.from \notin {NoBranch, EmptyName}
                          THEN last'.from ELSE load.current_branch
            IN  /\ name \notin DOMAIN load.branches
                /\ get_commits(load', name) = get_commits(load, source)
                /\ \A b \in DOMAIN load.branches :
                      get_commits(load', b) = get_commits(load, b)
       /\ (last'.op = "checkout" /\ last'.result = "ok") =>
            /\ get_current_branch(load') = last'.branch
            /\ \A b \in DOMAIN load.branches :
                  get_commits(load', b) = get_commits(load, b)
       /\ last'.op = "commit" =>
            \A b \in (DOMAIN load.branches) \ {load.current_branch} :
                /\ b \in DOMAIN load'.branches
                /\ get_commits(load', b) = get_commits(load, b)
       /\ last'.op = "merge" =>
            \A b \in (DOMAIN load.branches) \ {load.current_branch, last'.branch} :
                /\ b \in DOMAIN load'.branches
                /\ get_commits(load', b) = get_commits(load, b)]_vars

\* C2 witness: fix was branched from main, and main has since received a
\* merge of dev that left fix's list behind.
C2_Witness ==
    /\ last.op = "merge"
    /\ last.branch = Dev
    /\ last.result = "ok"
    /\ load.current_branch = Main
    /\ Fix \in DOMAIN load.branches
    /\ load.branches[Fix].parent = Main
    /\ Len(get_commits(load, Fix)) > 0
    /\ get_commits(load, Fix) # get_commits(load, Main)

HeadIsLast(index) ==
    \A b \in DOMAIN index.branches :
        LET entry == index.branches[b]
        IN  /\ entry.current_commit # NoCommit =>
                /\ Len(entry.commits) > 0
                /\ entry.commits[Len(entry.commits)] = entry.current_commit
            /\ entry.current_commit = NoCommit <=> Len(entry.commits) = 0

\* C3: for every branch of the Index, in memory and on disk, a non-null head
\* is the last element of the commit-id list, and the head is null exactly
\* when the list is empty.
C3_HeadIsLastCommit ==
    /\ HeadIsLast(load)
    /\ Len(disk) > 0 => HeadIsLast(disk[1])

\* C3 witness: a merge has appended to a branch that already had commits,
\* while another branch exists.
C3_Witness ==
    /\ last.op = "merge"
    /\ Len(get_commits(load, load.current_branch)) > 1
    /\ Cardinality(DOMAIN load.branches) > 1

\* C4: init() on a repository whose storage exists changes nothing (Index
\* document, commit store, current branch, id generator); the init() that
\* creates the storage leaves main with exactly its one seed id.
C4_InitIdempotent ==
    [][last'.op = "init" =>
        IF contextDir
        THEN /\ last'.result = "already initialized"
             /\ load' = load
             /\ UNCHANGED <<worktree, otherCache, pending, contextDir, disk, cache, commitStore, otaStore,
                            branchDirs, archive, nextId>>
        ELSE /\ last'.result = "ok"
             /\ get_commits(load', Main) = <<last'.ret>>
             /\ DOMAIN commitStore' = {<<Main, last'.ret>>}]_vars

\* C4 witness: init() called again, by a fresh engine instance, on a
\* repository that the first init() seeded.
C4_Witness ==
    /\ last.op = "init"
    /\ last.result = "already initialized"
    /\ Len(cache) = 0
    /\ Len(disk) > 0
    /\ Len(get_commits(disk[1], Main)) = 1
    /\ <<Main, disk[1].branches[Main].current_commit>> \in DOMAIN commitStore

\* C5: after merge(B, squash=False) the current branch's list is its
\* pre-merge list followed by every id of B's pre-merge Index list in
\* order, every copied commit keeps its content, B is absent from the Index
\* and the analysis provider was not called.
C5_SimpleMergeCopiesIndexList ==
    [][(last'.op = "merge" /\ ~last'.squash /\ last'.result = "ok") =>
        LET B == last'.branch
            A == load.current_branch
        IN  /\ get_commits(load', A) = get_commits(load, A) \o get_commits(load, B)
            /\ \A k \in 1..Len(get_commits(load, B)) :
                  <<A, get_commits(load, B)[k]>> \in DOMAIN commitStore'
            /\ B \notin DOMAIN load'.branches
            /\ ~last'.llm]_vars

\* C6: with the stub provider, init() -> branch("feature/x") ->
\* checkout("feature/x") -> commit("add X", ["Use X"]) -> checkout("main")
\* -> merge("feature/x", squash) runs without error, adds exactly one
\* commit to main whose decisions are ["Use X"], and leaves no feature/x.
C6_FeatureXScenario ==
    [][/\ (last.op = "init" /\ last.result = "ok"
           /\ last'.op = "branch" /\ last'.branch = FeatureX) =>
            /\ last'.result = "ok"
            /\ FeatureX \in DOMAIN load'.branches
       /\ (last'.op = "merge" /\ last'.branch = FeatureX /\ last'.squash
           /\ load.current_branch = Main /\ FeatureX \in DOMAIN load.branches) =>
            /\ last'.result = "ok"
            /\ get_commits(load', Main) = Append(get_commits(load, Main), last'.ret)
            /\ commitStore'[<<Main, last'.ret>>].decisions = UseX
            /\ FeatureX \notin DOMAIN load'.branches]_vars

\* C7: merge of the current branch fails with the self-merge error and
\* merge of an absent branch with the not-found error; a merge refused
\* for either reason leaves the Index, the commit store, the branch
\* storage and the archive as they were and does not call the provider.
C7_MergeRefusals ==
    [][last'.op = "merge" =>
        /\ last'.branch = load.current_branch =>
              last'.result = "MergeError: into itself"
        /\ (last'.branch # load.current_branch
            /\ last'.branch \notin DOMAIN load.branches) =>
              last'.result = "MergeError: not found"
        /\ last'.result \in {"MergeError: into itself", "MergeError: not found"} =>
              /\ load' = load
              /\ ~last'.llm
              /\ UNCHANGED <<worktree, otherCache, pending, contextDir, disk, commitStore, otaStore,
                             branchDirs, archive, nextId>>]_vars

\* C7 witness: a self-merge was refused on a repository that has commits and
\* a second branch.
C7_Witness ==
    /\ last.op = "merge"
    /\ last.result = "MergeError: into itself"
    /\ DOMAIN commitStore # {}
    /\ Cardinality(DOMAIN load.branches) > 1

\* C8: delete_branch fails when the name is absent, is main or is the
\* current branch, and then the Index is unchanged in memory and on disk;
\* otherwise it removes exactly that entry and keeps every other entry and
\* current_branch.
C8_DeleteBranch ==
    [][last'.op = "branch_delete" =>
        LET name == last'.branch
        IN  IF \/ name \notin DOMAIN load.branches
               \/ name = Main
               \/ name = load.current_branch
            THEN /\ last'.result # "ok"
                 /\ load' = load
                 /\ disk' = disk
            ELSE /\ last'.result = "ok"
                 /\ DOMAIN load'.branches = (DOMAIN load.branches) \ {name}
                 /\ \A b \in DOMAIN load'.branches :
                       load'.branches[b] = load.branches[b]
                 /\ load'.current_branch = load.current_branch
                 /\ disk' = <<load'>>]_vars

\* C8 witness: deleting the checked-out branch dev was refused.
C8_Witness ==
    /\ last.op = "branch_delete"
    /\ last.branch = Dev
    /\ last.result = "StorageError: cannot delete current"
    /\ Dev \in DOMAIN load.branches

\* C9: create_branch fails with already-exists when the name is present
\* (whatever the source), with not-found when the source is absent, and in
\* both cases leaves the Index unchanged; on success the new entry has the
\* source's commit list and head and names the source as parent.
C9_CreateBranch ==
    [][(last'.op = "branch" /\ last'.branch # EmptyName
        /\ ~HasSeparator(last'.branch)) =>
        LET name == last'.branch
            source == IF last'.from \notin {NoBranch, EmptyName}
                      THEN last'.from ELSE load.current_branch
        IN  IF name \in DOMAIN load.branches
            THEN /\ last'.result = "StorageError: already exists"
                 /\ load' = load
                 /\ disk' = disk
            ELSE IF source \notin DOMAIN load.branches
            THEN /\ last'.result = "StorageError: source not found"
                 /\ load' = load
                 /\ disk' = disk
            ELSE /\ last'.result = "ok"
                 /\ DOMAIN load'.branches = (DOMAIN load.branches) \cup {name}
                 /\ load'.branches[name].commits = load.branches[source].commits
                 /\ load'.branches[name].current_commit =
                       load.branches[source].current_commit
                 /\ load'.branches[name].parent = source
                 /\ \A b \in DOMAIN load.branches :
                       load'.branches[b] = load.branches[b]
                 /\ disk' = <<load'>>]_vars

\* C9 witness: creating a branch under the existing name dev from an absent
\* source was refused as already existing.
C9_Witness ==
    /\ last.op = "branch"
    /\ last.branch = Dev
    /\ last.from = FeatureX
    /\ last.result = "StorageError: already exists"
    /\ Len(get_commits(load, Dev)) > 0

\* C10: checkout of a name absent from the Index fails with not-found and
\* leaves current_branch unchanged; checkout of an existing name makes it
\* the current branch and changes no branch entry.
C10_Checkout ==
    [][last'.op = "checkout" =>
        IF last'.branch \notin DOMAIN load.branches
        THEN /\ last'.result = "StorageError: not found"
             /\ load' = load
             /\ disk' = disk
        ELSE /\ last'.result = "ok"
             /\ load'.current_branch = last'.branch
             /\ load'.branches = load.branches
             /\ disk' = <<load'>>]_vars

\* C10 witness: dev, holding commits, was checked out.
C10_Witness ==
    /\ last.op = "checkout"
    /\ last.branch = Dev
    /\ last.result = "ok"
    /\ load.current_branch = Dev
    /\ Len(get_commits(load, Dev)) > 0


\* C11: a successful commit appends exactly one new id to the current
\* branch's list and makes it the head; the stored commit's parent is the
\* head the branch had before the call (null when the list was empty); the
\* returned id is the new head; no other branch entry and not
\* current_branch is changed.
C11_CommitAppendsToCurrent ==
    [][(last'.op = "commit" /\ last'.result = "ok") =>
        LET current == load.current_branch
            before == load.branches[current]
            after == load'.branches[current]
            stored == commitStore'[<<current, last'.ret>>]
        IN  /\ after.commits = Append(before.commits, last'.ret)
            /\ \A i \in DOMAIN before.commits : before.commits[i] # last'.ret
            /\ after.current_commit = last'.ret
            /\ <<current, last'.ret>> \in DOMAIN commitStore'
            /\ stored.id = last'.ret
            /\ stored.parent = before.current_commit
            /\ Len(before.commits) = 0 => stored.parent = NoCommit
            /\ load'.current_branch = current
            /\ DOMAIN load'.branches = DOMAIN load.branches
            /\ \A b \in DOMAIN load.branches \ {current} :
                  load'.branches[b] = load.branches[b]]_vars

\* C11 witness: a commit was made on dev, on top of an earlier head, while
\* main holds commits of its own.
C11_Witness ==
    /\ last.op = "commit"
    /\ last.result = "ok"
    /\ load.current_branch = Dev
    /\ Len(get_commits(load, Dev)) > 1
    /\ commitStore[<<Dev, last.ret>>].parent # NoCommit
    /\ Len(get_commits(load, Main)) > 0


\* C12: branch(name, from) never changes current_branch: after a successful
\* or a failed call the current branch is the one it was before, and every
\* branch that existed keeps its commit list and its head.
C12_BranchKeepsCurrent ==
    [][last'.op = "branch" =>
        /\ get_current_branch(load') = get_current_branch(load)
        /\ \A b \in DOMAIN load.branches :
              /\ b \in DOMAIN load'.branches
              /\ load'.branches[b].commits = load.branches[b].commits
              /\ load'.branches[b].current_commit =
                    load.branches[b].current_commit
        /\ last'.result # "ok" => load' = load /\ disk' = disk]_vars

\* C12 witness: dev was created from main, which holds commits and stays
\* the current branch.
C12_Witness ==
    /\ last.op = "branch"
    /\ last.result = "ok"
    /\ last.branch = Dev
    /\ Dev \in DOMAIN load.branches
    /\ load.current_branch = Main
    /\ Len(get_commits(load, Main)) > 0


\* C13: a successful squash merge of B into the current branch A adds
\* exactly one commit to A (A's list is its pre-merge list followed by one
\* new id); that commit's parent is A's pre-merge head, its OTA log list is
\* empty, its decisions and alternatives are those of the SquashResult, its
\* metadata has squash_merge = true; every branch other than A and B keeps
\* its commit list and head, and current_branch stays A.
C13_SquashMergeOneCommit ==
    [][(last'.op = "merge" /\ last'.squash /\ last'.result = "ok") =>
        LET A == load.current_branch
            B == last'.branch
            before == load.branches[A]
            after == load'.branches[A]
            stored == commitStore'[<<A, last'.ret>>]
            result == archive'[Len(archive')].squash_result
        IN  /\ after.commits = Append(before.commits, last'.ret)
            /\ \A i \in DOMAIN before.commits : before.commits[i] # last'.ret
            /\ <<A, last'.ret>> \in DOMAIN commitStore'
            /\ stored.parent = before.current_commit
            /\ stored.ota_logs = <<>>
            /\ <<A, last'.ret>> \notin otaStore'
            /\ Len(archive') = Len(archive) + 1
            /\ stored.decisions = result.decisions
            /\ stored.alternatives = result.rejected_alternatives
            /\ stored.metadata.squash_merge = TRUE
            /\ \A b \in DOMAIN load.branches \ {A, B} :
                  /\ b \in DOMAIN load'.branches
                  /\ load'.branches[b] = load.branches[b]
            /\ load'.current_branch = A]_vars

\* C13 witness: a branch was squash merged into dev, which had a head of
\* its own, while a third branch exists; the squash commit carries
\* decisions.
C13_Witness ==
    /\ last.op = "merge"
    /\ last.squash
    /\ last.result = "ok"
    /\ last.branch = Fix
    /\ load.current_branch = Dev
    /\ Len(get_commits(load, Dev)) > 1
    /\ commitStore[<<Dev, last.ret>>].parent # NoCommit
    /\ Len(commitStore[<<Dev, last.ret>>].decisions) > 0
    /\ Len(get_commits(load, Main)) > 0


\* C14: for every branch b of the Index with commit-id list L and every
\* limit >= 1, log(b, limit) returns exactly min(limit, |L|) commits, whose
\* ids are the last min(limit, |L|) elements of L in list order; also for
\* a branch just created from a branch that had commits.
C14_LogReturnsWindow ==
    \A b \in DOMAIN load.branches, limit \in 1..MaxLimit :
        LET L == get_commits(load, b)
            n == IF limit < Len(L) THEN limit ELSE Len(L)
            returned == log(load, commitStore, b, limit)
        IN  /\ Len(returned) = n
            /\ \A k \in 1..n : returned[k].id = L[Len(L) - n + k]


\* C15: whenever the current branch has a non-null head, status() reports
\* uncommitted changes exactly when the fresh tracked-file snapshot differs
\* from the head commit's files_snapshot, also right after branch(name) and
\* checkout(name) onto a branch whose head was inherited from its source.
C15_UncommittedIffSnapshotDiffers ==
    LET current == load.current_branch
        head == load.branches[current].current_commit
    IN  (current \in DOMAIN load.branches /\ head # NoCommit) =>
            \A key \in DOMAIN commitStore :
                key[2] = head =>
                    (status(load, commitStore).uncommitted_changes
                        <=> get_files_snapshot # commitStore[key].files_snapshot)


\* C16: when the backend call of a commit with OTA logs or of a squash
\* merge raises, the failure is absorbed: the error never reaches the
\* caller, and a squash merge that is not refused still produces the squash
\* commit on the current branch and deletes the source branch.  (That the
\* commit with OTA logs still appends is left out of the formula: saving
\* such a commit fails on its own, see C20.)
C16_BackendFailureAbsorbed ==
    [][/\ last'.result # "backend error"
       /\ (/\ last'.op = "merge"
           /\ last'.squash
           /\ last'.branch # Main
           /\ merge_error(load, last'.branch) = "ok") =>
            LET current == load.current_branch
            IN  /\ last'.result = "ok"
                /\ get_commits(load', current) =
                      Append(get_commits(load, current), last'.ret)
                /\ <<current, last'.ret>> \in DOMAIN commitStore'
                /\ last'.branch \notin DOMAIN load'.branches]_vars

\* C17: a failure while writing the archive during a squash merge does not
\* abort the merge: every squash merge that is not refused still appends
\* the squash commit to the current branch and deletes the source branch
\* from the Index.
C17_ArchiveFailureDoesNotAbort ==
    [][(/\ last'.op = "merge"
        /\ last'.squash
        /\ last'.branch # Main
        /\ merge_error(load, last'.branch) = "ok") =>
        LET current == load.current_branch
        IN  /\ Len(get_commits(load', current)) =
                  Len(get_commits(load, current)) + 1
            /\ get_current_commit(load', current) #
                  get_current_commit(load, current)
            /\ last'.branch \notin DOMAIN load'.branches]_vars


\* C18: branch, checkout, commit and merge attempted on a repository where
\* init() has not run fail (the error being NotInitialized) and create no
\* Index document and no commit document; consequently, whenever an Index
\* document exists on disk, main's commit list starts with the seed commit
\* created by init.  The formula asks only that the call fails, whatever the
\* error, so that a refused argument does not count against it.
C18_NotInitialized ==
    [][/\ (~contextDir /\ last'.op \in {"branch", "checkout", "commit", "merge"}) =>
            /\ last'.result # "ok"
            /\ disk' = <<>>
            /\ commitStore' = <<>>
       /\ Len(disk') > 0 =>
            LET list == get_commits(disk'[1], Main)
            IN  /\ Len(list) > 0
                /\ <<Main, list[1]>> \in DOMAIN commitStore'
                /\ commitStore'[<<Main, list[1]>>].message = <<"Initial context">>
      ]_vars


\* C19: for every provider, the offline stub included,
\* squash_branch_history(branch, []) returns a SquashResult with
\* original_commits = 0 and architecture_summary = "No commits in branch",
\* and a network provider makes no backend call for it.  The result is
\* read from the archive document of the squash merge that asked for it.
C19_EmptySquashIsDegenerate ==
    [][(/\ last'.op = "merge"
        /\ last'.squash
        /\ Len(archive') = Len(archive) + 1
        /\ Len(archive'[Len(archive')].commits) = 0) =>
        LET result == archive'[Len(archive')].squash_result
        IN  /\ result.original_commits = 0
            /\ result.architecture_summary = "No commits in branch"
            /\ provider = "backend" => ~last'.llm]_vars


\* C20: for any Commit value, also one with OTA logs and alternatives,
\* saving it under (branch, id) does not fail, and loading it back from the
\* same (branch, id) yields a commit equal field for field.
C20_CommitRoundTrip ==
    /\ last.op = "_save_commit" => last.result = "ok"
    /\ last.op = "_load_commit" => last.ret = <<last.commit>>


IsPrefix(s, t) == Len(s) <= Len(t) /\ SubSeq(t, 1, Len(s)) = s

\* C22: a branch's commit-id list is append-only: over every step in which
\* the branch exists before and after, in memory and on disk, the list
\* before is a prefix of the list after (nothing is removed, reordered or
\* rewritten); by induction the same holds between any two states between
\* which the branch exists continuously.
C22_ListsAppendOnly ==
    [][/\ \A b \in (DOMAIN load.branches) \cap (DOMAIN load'.branches) :
            IsPrefix(get_commits(load, b), get_commits(load', b))
       /\ (Len(disk) > 0 /\ Len(disk') > 0) =>
            \A b \in (DOMAIN disk[1].branches) \cap (DOMAIN disk'[1].branches) :
                IsPrefix(get_commits(disk[1], b), get_commits(disk'[1], b))
      ]_vars

\* C22 witness: a simple merge has appended dev's commit to main's list,
\* which already held the seed.
C22_Witness ==
    /\ last.op = "merge"
    /\ ~last.squash
    /\ last.result = "ok"
    /\ load.current_branch = Main
    /\ Len(get_commits(load, Main)) > 1
    /\ Len(disk) > 0
    /\ get_commits(disk[1], Main) = get_commits(load, Main)


\* C23: in every reachable state the Index, in memory and on disk, contains
\* a branch named main, and current_branch names a branch of the Index.
C23_MainAndCurrentExist ==
    /\ Main \in DOMAIN load.branches
    /\ load.current_branch \in DOMAIN load.branches
    /\ Len(disk) > 0 =>
        /\ Main \in DOMAIN disk[1].branches
        /\ disk[1].current_branch \in DOMAIN disk[1].branches

\* C23 witness: with dev checked out, the deletion of dev was asked for and
\* refused.
C23_Witness ==
    /\ last.op = "branch_delete"
    /\ last.branch = Dev
    /\ last.result = "StorageError: cannot delete current"
    /\ load.current_branch = Dev
    /\ Len(disk) > 0


\* C24: a merge call that raises leaves the Index (in memory and on disk)
\* and the commit store exactly as they were before the call; in
\* particular merge('main', squash) with a non-main branch checked out
\* either completes or leaves the current branch's list and head unchanged.
C24_MergeAllOrNothing ==
    [][(last'.op = "merge" /\ last'.result # "ok") =>
        /\ load' = load
        /\ disk' = disk
        /\ commitStore' = commitStore]_vars


\* C25: with two engine instances taking turns between whole operations,
\* every operation starts from the Index document as it is on disk when the
\* operation begins, and no completed operation's Index change is
\* overwritten by a later operation of the other instance: a commit id on
\* disk stays on disk.
C25_OperationsStartFromDisk ==
    [][last'.op \in {"status", "branch", "checkout", "commit"} =>
        /\ Len(disk) > 0 => load = disk[1]
        /\ (Len(disk) > 0 /\ Len(disk') > 0) =>
            \A b \in DOMAIN disk[1].branches :
                /\ b \in DOMAIN disk'[1].branches
                /\ IsPrefix(get_commits(disk[1], b), get_commits(disk'[1], b))
      ]_vars


\* C26: with two engine instances a lost update is reachable.  The
\* mechanism: every commit() returns successfully and writes to disk the
\* list its own instance holds (its cached Index if it has one, else the
\* document on disk) followed by the new id, whatever the other instance
\* has written since; the witness is the state the claim describes.
C26_CommitWritesHeldList ==
    [][last'.op = "commit" =>
        LET held == IF Len(cache) > 0 THEN cache[1]
                    ELSE IF Len(disk) > 0 THEN disk[1]
                    ELSE _create_default
            b == held.current_branch
        IN  /\ last'.result = "ok"
            /\ last'.ret # NoCommit
            /\ Len(disk') > 0
            /\ get_commits(disk'[1], b) =
                  Append(get_commits(held, b), last'.ret)]_vars

\* C26 witness: two commit() calls, one per instance, have both returned
\* (both commit documents are stored under main), and the list of main on
\* disk holds the id of the second call only.
C26_Witness ==
    /\ last.op = "commit"
    /\ last.result = "ok"
    /\ Len(disk) > 0
    /\ disk[1].current_branch = Main
    /\ \E k \in 1..Len(get_commits(disk[1], Main)) :
            get_commits(disk[1], Main)[k] = last.ret
    /\ \E id \in 1..MaxIds :
        /\ id # last.ret
        /\ <<Main, id>> \in DOMAIN commitStore
        /\ commitStore[<<Main, id>>].message \in Messages
        /\ \A k \in 1..Len(get_commits(disk[1], Main)) :
                get_commits(disk[1], Main)[k] # id


\* C27: a commit() given OTA logs and an explicitly passed decisions list
\* (the empty list included) constructs its ContextCommit with the caller's
\* list; the analysis-derived decisions are used only when no list was
\* passed.  Stated on the commit object handed to _save_commit, since the
\* save of a commit with OTA logs fails by itself (C20).
C27_ExplicitDecisionsKept ==
    [][\A message \in Messages, decisions \in ExplicitDecisionArgs :
          commit(message, <<OtaLog>>, decisions, TRUE, <<>>) =>
              last'.decisions = decisions.value]_vars


\* C28: for every branch and every position i of its commit-id list, the
\* commit with id list[i] has parent list[i-1] when i > 1 and a null parent
\* when i = 1; a commit with a null parent is never found further on.
\* Read on every commit document stored under that id.
C28_ParentChain ==
    \A b \in DOMAIN load.branches :
        LET L == get_commits(load, b)
        IN  \A i \in 1..Len(L), key \in DOMAIN commitStore :
                key[2] = L[i] =>
                    commitStore[key].parent =
                        (IF i > 1 THEN L[i - 1] ELSE NoCommit)


\* C29: in the legacy engine, after merge(B, squash=True) of an existing
\* branch B into the current branch A completes, the index on disk has no
\* branch B, and A's head and the last element of A's list are the squash
\* commit that _apply_squash_result created during that merge.
C29_LegacySquashMerge ==
    [][(last'.op = "merge" /\ last'.squash /\ last'.result = "ok") =>
        LET A == disk[1].current_branch
            after == disk'[1].branches[A]
        IN  /\ last'.branch \notin DOMAIN disk'[1].branches
            /\ <<A, last'.ret>> \in DOMAIN commitStore'
            /\ after.current_commit = last'.ret
            /\ Len(after.commits) > 0
            /\ after.commits[Len(after.commits)] = last'.ret]_vars


\* C30: in the legacy engine, merge(B, squash=False) appends the ids of
\* B's commits to the current branch's list in their original order, stores
\* each of these commits under the current branch, and removes B from the
\* index.
C30_LegacySimpleMerge ==
    [][(last'.op = "merge" /\ ~last'.squash /\ last'.result = "ok") =>
        LET A == disk[1].current_branch
            B == last'.branch
            copied == core_get_branch_commits(disk[1], commitStore, B)
        IN  /\ disk'[1].branches[A].commits =
                  disk[1].branches[A].commits
                      \o [k \in DOMAIN copied |-> copied[k].id]
            /\ \A k \in DOMAIN copied :
                  <<A, copied[k].id>> \in DOMAIN commitStore'
            /\ B \notin DOMAIN disk'[1].branches]_vars


\* C31: in every reachable state, for every branch b of the Index and every
\* id of b's commit list, a commit document for that id loads from b's own
\* history path, so that _get_branch_commits(b) returns one commit per
\* listed id.
C31_ListedCommitsLoad ==
    \A b \in DOMAIN load.branches :
        /\ \A i \in DOMAIN get_commits(load, b) :
              Len(_load_commit(commitStore, get_commits(load, b)[i], b)) = 1
        /\ Len(_get_branch_commits(load, commitStore, b)) =
              Len(get_commits(load, b))


\* C32: no commit id occurs twice in the commit list of any branch (ids
\* are generated fresh, as they are here).
C32_NoDuplicateIds ==
    \A b \in DOMAIN load.branches :
        \A i, j \in DOMAIN get_commits(load, b) :
            get_commits(load, b)[i] = get_commits(load, b)[j] => i = j


\* C33: at every point of a squash merge, a stop between two writes
\* included: once the source branch is absent from the Index on disk, its
\* archive directory holds branch.json and summary.md and the squash commit
\* is stored and is the head of the current branch; and the source branch's
\* storage subtree is removed only when the Index on disk no longer has the
\* branch.
C33_SquashMergeOrder ==
    [][(/\ last'.op = "merge"
        /\ last'.result \in {"running", "ok", "crashed"}
        /\ Len(disk') > 0) =>
        LET B == last'.branch
            index == disk'[1]
            A == index.current_branch
        IN  /\ B \notin DOMAIN index.branches =>
                /\ Len(archive') > 0
                /\ archive'[Len(archive')].branch = B
                /\ archive'[Len(archive')].summary
                /\ <<A, last'.ret>> \in DOMAIN commitStore'
                /\ index.branches[A].current_commit = last'.ret
            /\ (B \in branchDirs /\ B \notin branchDirs') =>
                /\ Len(disk) > 0
                /\ B \notin DOMAIN disk[1].branches
      ]_vars

\* C33 witness: a squash merge of dev stopped after index.delete_branch and
\* before storage.delete: dev is gone from the Index on disk, its storage
\* subtree is still there.
C33_Witness ==
    /\ last.op = "merge"
    /\ last.result = "crashed"
    /\ last.branch = Dev
    /\ Len(disk) > 0
    /\ Dev \notin DOMAIN disk[1].branches
    /\ Dev \in branchDirs
    /\ pending = <<>>


\* C34: when the analysis provider raises during commit (OTA logs given) or
\* during a squash merge, the call fails with the Index on disk, the Index
\* the engine holds, the commit store, the OTA-log store, the archive and
\* the branch directories as they were before the call.
C34_ProviderFailureWritesNothing ==
    [][last'.result = "backend error" =>
        /\ last'.op \in {"commit", "merge"}
        /\ last'.llm
        /\ load' = load
        /\ UNCHANGED <<contextDir, disk, commitStore, otaStore, archive,
                       branchDirs>>]_vars

\* C34 witness: the provider raised during the squash merge of a branch
\* that has a commit of its own.
C34_Witness ==
    /\ last.op = "merge"
    /\ last.result = "backend error"
    /\ Len(disk) > 0
    /\ last.branch \in DOMAIN disk[1].branches
    /\ Len(_get_branch_commits(disk[1], commitStore, last.branch)) > 0


\* C35: at every point of init, of commit and of a squash merge, a stop
\* between two writes included, the commit id that the operation has
\* appended to a list of the Index on disk has its commit document stored
\* under that branch's history path.
C35_DocumentBeforeIndex ==
    [][(/\ last'.op \in {"init", "commit", "merge"}
        /\ last'.ret # NoCommit
        /\ Len(disk') > 0) =>
        \A b \in DOMAIN disk'[1].branches :
            (\E k \in DOMAIN get_commits(disk'[1], b) :
                    get_commits(disk'[1], b)[k] = last'.ret) =>
                <<b, last'.ret>> \in DOMAIN commitStore'
      ]_vars

\* C35 witness: a commit stopped between _save_commit and index.add_commit
\* leaves a commit document that no list of the Index names.
C35_Witness ==
    /\ last.op = "commit"
    /\ last.result = "crashed"
    /\ pending = <<>>
    /\ Len(disk) > 0
    /\ \E b \in DOMAIN disk[1].branches :
            <<b, last.ret>> \in DOMAIN commitStore
    /\ \A b \in DOMAIN disk[1].branches :
            \A k \in DOMAIN get_commits(disk[1], b) :
                get_commits(disk[1], b)[k] # last.ret


\* C36: for every branch b and every limit >= 0, log(b, limit) returns at
\* most limit commits; log(b, 0) returns the empty list.
C36_LogAtMostLimit ==
    \A b \in DOMAIN load.branches, limit \in 0..MaxLimit :
        Len(log(load, commitStore, b, limit)) <= limit


====
